---- MODULE Spec2Model ----
(***************************************************************************)
(* Blob detection of basics/log.py: the circle and pixel overlap kernels,  *)
(* overlap_metric, merge_to_ellipse, _merge_blobs, _prune_blobs and the    *)
(* stages of blob_log.                                                     *)
(*                                                                         *)
(* Numbers.  The code works on float64.  Lengths (y, x, semi-major,        *)
(* semi-minor) are fixed-point integers in units of 1/Scale pixel, overlap *)
(* fractions in units of 1/OvScale, angles in units of 1e-6 radian.  The   *)
(* inputs are on a grid of whole pixels with radii that are multiples of   *)
(* half a pixel, where every comparison the code makes on distances is     *)
(* decided the same way in fixed point as in float64.                      *)
(***************************************************************************)
EXTENDS Integers, Sequences, FiniteSets, TLC

VARIABLES
    pc,                 \* position: "idle", "merge", "prune", "done", "raised"
    fn,                 \* the function the call entered
    input,              \* the array as the caller passed it
    blobs_array,        \* the array the function works on (rows are views)
    overlap,            \* _prune_blobs: the overlap threshold
    use_shell_fraction, \* _prune_blobs: the flag
    min_distance_merge, \* _merge_blobs: the parameter
    dist_arr,           \* the upper-triangular overlap matrix
    overlaps,           \* the (posn1, posn2) pairs the for loop has left
    merged_blobs,       \* _merge_blobs: the ellipses synthesized so far
    merge_log,          \* _merge_blobs: the (posn1, posn2) pairs merged so far
    remove_blobs,       \* _prune_blobs: the indices marked so far
    ret,                \* the returned array
    val,                \* the returned number (the kernels)
    kernel,             \* the kernels overlap_metric called
    err,                \* the exception raised, "none" if none
    ndim,               \* the number of dimensions of the array passed
    calls,              \* the steps and library calls executed so far
    stage,              \* blob_log: position, "none" outside blob_log
    scale_choice,       \* blob_log: the argument, [text, literal]
    sigma_list,         \* blob_log: None or the scales
    weighting,          \* blob_log: None or the weights
    local_maxima,       \* blob_log: the detections so far
    image_cube,         \* blob_log: the planes of the response stack, 0 before
    result,             \* blob_log: the detections returned
    first_pass          \* the return value of the first of two merge passes

vars == <<pc, fn, input, blobs_array, overlap, use_shell_fraction,
          min_distance_merge, dist_arr, overlaps, merged_blobs, merge_log,
          remove_blobs, ret, val, kernel, err, ndim, calls, stage,
          scale_choice, sigma_list, weighting, local_maxima, image_cube,
          result, first_pass>>

\* What the calls of the kernels, _merge_blobs and _prune_blobs leave alone.
outer == <<ndim, stage, scale_choice, sigma_list, weighting, local_maxima,
           image_cube, result, first_pass>>

-----------------------------------------------------------------------------
(* Number representation *)

\* float64 lengths, as fixed point: 1 pixel = Scale units.
Scale == 1000

\* float64 overlap fractions, as fixed point: 1.0 = OvScale units.
OvScale == 1000000

\* np.pi, in units of 1e-6 radian.
Pi == 3141593

\* The float64 NaN that 0/0 yields; it compares false with everything.
NaN == -999999999

\* The return value of the touching branch of _blob_overlap, 1e-5.
Epsilon == 10

\* max_merge_overlap of _merge_blobs, 1.0.
MaxMergeOverlap == 1000000

\* grid_space of _pixel_overlap, 0.2 pixel.
GridSpace == 200

\* The radius _merge_blobs writes into a consumed row, -1.
Sentinel == -Scale

Abs(n) == IF n < 0 THEN -n ELSE n

Min(a, b) == IF a < b THEN a ELSE b

Max(a, b) == IF a > b THEN a ELSE b

RECURSIVE SqrtSearch(_, _, _)
SqrtSearch(n, lo, hi) ==
    IF lo >= hi THEN lo
    ELSE LET mid == (lo + hi + 1) \div 2
         IN IF mid * mid <= n THEN SqrtSearch(n, mid, hi)
            ELSE SqrtSearch(n, lo, mid - 1)

\* math.hypot on fixed-point arguments: the root, rounded down to a unit.
Hypot(a, b) == SqrtSearch(a * a + b * b, 0, Abs(a) + Abs(b))

\* np.arctan of p/q for 0 <= p/q: the value in 1e-6 radian.
ArcTanPos(p, q) ==
    CASE p = 0 -> 0
      [] 5 * p = q -> 197396
      [] 4 * p = q -> 244979
      [] 3 * p = q -> 321751
      [] 5 * p = 2 * q -> 380506
      [] 2 * p = q -> 463648
      [] 3 * p = 2 * q -> 588003
      [] p = q -> 785398
      [] p = 2 * q -> 1107149

\* np.arctan(num / den) on float64: x/0 is +-inf (arctan +-pi/2), 0/0 is NaN.
ArcTanRatio(num, den) ==
    IF den = 0
      THEN IF num = 0 THEN NaN
           ELSE IF num > 0 THEN Pi \div 2 ELSE -(Pi \div 2)
      ELSE IF (num < 0) # (den < 0) /\ num # 0
             THEN -ArcTanPos(Abs(num), Abs(den))
             ELSE ArcTanPos(Abs(num), Abs(den))

\* a < b on float64: false when either side is NaN.
FloatLt(a, b) == a # NaN /\ b # NaN /\ a < b

-----------------------------------------------------------------------------
(* Detections *)

\* A row (y, x, semi-major, semi-minor, position angle).
Det(y, x, major, minor, pa) ==
    [y |-> y, x |-> x, major |-> major, minor |-> minor, pa |-> pa]

\* A row with the trailing shell fraction and channel of multiscale_bubblefind.
DetShell(b, sf) ==
    [y |-> b.y, x |-> b.x, major |-> b.major, minor |-> b.minor, pa |-> b.pa,
     sf |-> sf, ch |-> 0]

\* blobs_array[:, slice(0, -2)] of one row: the geometric fields.
Geometry(b) == Det(b.y, b.x, b.major, b.minor, b.pa)

-----------------------------------------------------------------------------
(* _blob_overlap *)

\* Lines 91-105 of _blob_overlap, the lens area over the smaller disk's area,
\* evaluated in float64 and rounded to 1/OvScale, for the distances d and
\* radii r1, r2 (in 1/Scale pixel) of the grid.
LensFraction(d, r1, r2) ==
    CASE d = 1000 /\ r1 = 1000 /\ r2 = 1000 -> 391002
      [] d = 1000 /\ r1 = 1000 /\ r2 = 1500 -> 741700
      [] d = 1000 /\ r1 = 1500 /\ r2 = 1000 -> 741700
      [] d = 1000 /\ r1 = 1500 /\ r2 = 1500 -> 583583
      [] d = 1000 /\ r1 = 2500 /\ r2 = 2500 -> 747060
      [] d = 1414 /\ r1 = 1000 /\ r2 = 1000 -> 181690
      [] d = 1414 /\ r1 = 1000 /\ r2 = 1500 -> 480543
      [] d = 1414 /\ r1 = 1500 /\ r2 = 1000 -> 480543
      [] d = 1414 /\ r1 = 1500 /\ r2 = 1500 -> 422826
      [] d = 1414 /\ r1 = 1500 /\ r2 = 2500 -> 884610
      [] d = 1414 /\ r1 = 2500 /\ r2 = 1500 -> 884610
      [] d = 1414 /\ r1 = 2500 /\ r2 = 2500 -> 644734
      [] d = 2000 /\ r1 = 1000 /\ r2 = 1500 -> 158343
      [] d = 2000 /\ r1 = 1000 /\ r2 = 2500 -> 771834
      [] d = 2000 /\ r1 = 1500 /\ r2 = 1000 -> 158343
      [] d = 2000 /\ r1 = 1500 /\ r2 = 1500 -> 219102
      [] d = 2000 /\ r1 = 1500 /\ r2 = 2500 -> 644567
      [] d = 2000 /\ r1 = 2500 /\ r2 = 1000 -> 771834
      [] d = 2000 /\ r1 = 2500 /\ r2 = 1500 -> 644567
      [] d = 2000 /\ r1 = 2500 /\ r2 = 2500 -> 504632
      [] d = 2236 /\ r1 = 1000 /\ r2 = 1500 -> 61848
      [] d = 2236 /\ r1 = 1000 /\ r2 = 2500 -> 624483
      [] d = 2236 /\ r1 = 1500 /\ r2 = 1000 -> 61848
      [] d = 2236 /\ r1 = 1500 /\ r2 = 1500 -> 148220
      [] d = 2236 /\ r1 = 1500 /\ r2 = 2500 -> 544758
      [] d = 2236 /\ r1 = 2500 /\ r2 = 1000 -> 624483
      [] d = 2236 /\ r1 = 2500 /\ r2 = 1500 -> 544758
      [] d = 2236 /\ r1 = 2500 /\ r2 = 2500 -> 450185
      [] d = 2828 /\ r1 = 1000 /\ r2 = 2500 -> 262051
      [] d = 2828 /\ r1 = 1500 /\ r2 = 1500 -> 16277
      [] d = 2828 /\ r1 = 1500 /\ r2 = 2500 -> 307437
      [] d = 2828 /\ r1 = 2500 /\ r2 = 1000 -> 262051
      [] d = 2828 /\ r1 = 2500 /\ r2 = 1500 -> 307437
      [] d = 2828 /\ r1 = 2500 /\ r2 = 2500 -> 320255
      [] d = 3000 /\ r1 = 1000 /\ r2 = 2500 -> 171424
      [] d = 3000 /\ r1 = 1500 /\ r2 = 2500 -> 244997
      [] d = 3000 /\ r1 = 2500 /\ r2 = 1000 -> 171424
      [] d = 3000 /\ r1 = 2500 /\ r2 = 1500 -> 244997
      [] d = 3000 /\ r1 = 2500 /\ r2 = 2500 -> 284757
      [] d = 3162 /\ r1 = 1000 /\ r2 = 2500 -> 96672
      [] d = 3162 /\ r1 = 1500 /\ r2 = 2500 -> 189634
      [] d = 3162 /\ r1 = 2500 /\ r2 = 1000 -> 96672
      [] d = 3162 /\ r1 = 2500 /\ r2 = 1500 -> 189634
      [] d = 3162 /\ r1 = 2500 /\ r2 = 2500 -> 252215
      [] d = 3605 /\ r1 = 1500 /\ r2 = 2500 -> 62754
      [] d = 3605 /\ r1 = 2500 /\ r2 = 1500 -> 62754
      [] d = 3605 /\ r1 = 2500 /\ r2 = 2500 -> 169209
      [] d = 4000 /\ r1 = 2500 /\ r2 = 2500 -> 104088
      [] d = 4123 /\ r1 = 2500 /\ r2 = 2500 -> 85809
      [] d = 4472 /\ r1 = 2500 /\ r2 = 2500 -> 40519

\* _blob_overlap with the nested branch returning 0 like the disjoint one.
BlobOverlapNestedZero(blob1, blob2) ==
    LET r1 == blob1.major
        r2 == blob2.major
        d == Hypot(blob1.y - blob2.y, blob1.x - blob2.x)
    IN IF d > r1 + r2 THEN 0
       ELSE IF d = r1 + r2 THEN Epsilon
       ELSE IF d <= Abs(r1 - r2) THEN 0
       ELSE LensFraction(d, r1, r2)

\* _blob_overlap with the nested test strict: d < abs(r1 - r2).
BlobOverlapBranchStrict(blob1, blob2) ==
    LET r1 == blob1.major
        r2 == blob2.major
        d == Hypot(blob1.y - blob2.y, blob1.x - blob2.x)
    IN IF d > r1 + r2 THEN "return 0"
       ELSE IF d = r1 + r2 THEN "return 1e-5"
       ELSE IF d < Abs(r1 - r2) THEN "return 1"
       ELSE "closed form"

\* Lines 81-90 of _blob_overlap: the return statement the pair reaches, or
\* "closed form" for lines 91-105.
BlobOverlapBranch(blob1, blob2) ==
    LET r1 == blob1.major
        r2 == blob2.major
        d == Hypot(blob1.y - blob2.y, blob1.x - blob2.x)
    IN IF d > r1 + r2 THEN "return 0"
       ELSE IF d = r1 + r2 THEN "return 1e-5"
       ELSE IF d <= Abs(r1 - r2) THEN "return 1"
       ELSE "closed form"

\* The divisors of lines 91, 95 and 105, each a positive multiple of the
\* float64 divisor: 2 * d * r1, 2 * d * r2 and pi * min(r1, r2) ** 2.
Divisors(blob1, blob2) ==
    LET r1 == blob1.major
        r2 == blob2.major
        d == Hypot(blob1.y - blob2.y, blob1.x - blob2.x)
    IN <<2 * d * r1, 2 * d * r2, Min(r1, r2) * Min(r1, r2)>>

\* _blob_overlap(blob1, blob2): the overlapping area fraction of two disks.
BlobOverlap(blob1, blob2) ==
    LET r1 == blob1.major
        r2 == blob2.major
        d == Hypot(blob1.y - blob2.y, blob1.x - blob2.x)
    IN IF d > r1 + r2 THEN 0
       ELSE IF d = r1 + r2 THEN Epsilon
       ELSE IF d <= Abs(r1 - r2) THEN OvScale
       ELSE LensFraction(d, r1, r2)

-----------------------------------------------------------------------------
(* _pixel_overlap *)

\* The raster works in units of half a grid step, which all bounds and
\* centres of the modelled inputs are multiples of.
RasterUnit == GridSpace \div 2

\* astropy's ellipse_extent(a, b, theta): the half-widths (dx, dy) of the
\* axis-aligned box around the ellipse.  The modelled inputs have theta = 0.
EllipseExtent(a, b, theta) == <<a, b>>

\* Ellipse2D(True, x_0, y_0, a, b, theta).bounding_box:
\* ((y_low, y_high), (x_low, x_high)).
BoundingBox(x_0, y_0, a, b, theta) ==
    LET ext == EllipseExtent(a, b, theta)
    IN <<<<y_0 - ext[2], y_0 + ext[2]>>, <<x_0 - ext[1], x_0 + ext[1]>>>>

\* np.arange(start, stop, step).
Arange(start, stop, step) ==
    IF stop <= start THEN {}
    ELSE {start + k * step : k \in 0..((stop - start - 1) \div step)}

\* Ellipse2D.evaluate at one point, theta = 0:
\* ((x - x_0) / a) ** 2 + ((y - y_0) / b) ** 2 <= 1.  With a zero axis the
\* quotient is inf or NaN and the comparison is false.
InEllipse(x, y, x_0, y_0, a, b, theta) ==
    LET xx == (x - x_0) \div RasterUnit
        yy == (y - y_0) \div RasterUnit
        aa == a \div RasterUnit
        bb == b \div RasterUnit
    IN /\ aa > 0
       /\ bb > 0
       /\ xx * xx * bb * bb + yy * yy * aa * aa <= aa * aa * bb * bb

\* Line 435: the test for the early return of 0.0.
PixelEarlyReturn(bound1, bound2) ==
    bound1[1][2] < bound2[1][1] /\ bound1[2][2] < bound2[2][1]

\* The body of _pixel_overlap on the larger ellipse (la, lb, lpa), centred at
\* the origin, and the smaller one (sa, sb, spa), centred at (ox, oy).  With
\* a NaN angle the smaller ellipse has NaN bounds and no raster point, and
\* the quotient of line 469 is 0 / 0.0.
PixelKernel(la, lb, lpa, ox, oy, sa, sb, spa) ==
    LET bound1 == BoundingBox(0, 0, la, lb, lpa)
        bound2 == BoundingBox(ox, oy, sa, sb, spa)
    IN IF spa = NaN
         THEN NaN
       ELSE IF PixelEarlyReturn(bound1, bound2)
         THEN 0
         ELSE
           LET ylo == Min(bound1[1][1], bound2[1][1])
               yhi == Max(bound1[1][2], bound2[1][2])
               xlo == Min(bound1[2][1], bound2[2][1])
               xhi == Max(bound1[2][2], bound2[2][2])
               grid == Arange(ylo - GridSpace, yhi + GridSpace, GridSpace)
                         \X Arange(xlo - GridSpace, xhi + GridSpace, GridSpace)
               ellip1 == {p \in grid : InEllipse(p[2], p[1], 0, 0, la, lb, lpa)}
               ellip2 == {p \in grid : InEllipse(p[2], p[1], ox, oy, sa, sb, spa)}
               overlap_area == Cardinality(ellip1 \cap ellip2)
               ellip1_area == Cardinality(ellip1)
               ellip2_area == Cardinality(ellip2)
               smaller == IF ellip1_area > ellip2_area THEN ellip2_area
                          ELSE ellip1_area
           IN IF smaller = 0 THEN NaN
              ELSE (overlap_area * OvScale) \div smaller

\* PixelKernel tabulated once over the axis-aligned shapes and whole-pixel
\* offsets of the modelled inputs; the values are those of PixelKernel.
PixelShapes == {<<0, 0>>, <<1000, 1000>>, <<1500, 1500>>, <<2500, 2500>>,
                <<2500, 1500>>}

\* (larger a, larger b, offset x, offset y, smaller a, smaller b)
PixelKeys ==
    {k \in {<<l[1], l[2], ox * Scale, oy * Scale, s[1], s[2]>> :
                l \in {q \in PixelShapes : q[1] = 2500},
                s \in PixelShapes, ox \in -5..5, oy \in -2..2} :
        k[1] # k[2] \/ k[5] # k[6]}

PixelTable ==
    {<<k, PixelKernel(k[1], k[2], 0, k[3], k[4], k[5], k[6], 0)>> :
        k \in PixelKeys}

\* Lines 419-432: the bounding boxes (larger ellipse, smaller ellipse) in the
\* frame centred on the larger ellipse.
PixelBounds(blob1, blob2) ==
    LET large == IF blob1.major > blob2.major THEN blob1 ELSE blob2
        small == IF blob1.major > blob2.major THEN blob2 ELSE blob1
    IN <<BoundingBox(0, 0, large.major, large.minor, large.pa),
         BoundingBox(small.x - large.x, small.y - large.y,
                     small.major, small.minor, small.pa)>>

\* _pixel_overlap(blob1, blob2) with the default return_large_overlap=False.
PixelOverlap(blob1, blob2) ==
    LET large == IF blob1.major > blob2.major THEN blob1 ELSE blob2
        small == IF blob1.major > blob2.major THEN blob2 ELSE blob1
        key == <<large.major, large.minor, small.x - large.x,
                 small.y - large.y, small.major, small.minor>>
    IN IF large.pa = 0 /\ small.pa = 0 /\ key \in PixelKeys
         THEN (CHOOSE e \in PixelTable : e[1] = key)[2]
         ELSE PixelKernel(large.major, large.minor, large.pa,
                          small.x - large.x, small.y - large.y,
                          small.major, small.minor, small.pa)

-----------------------------------------------------------------------------
(* overlap_metric, merge_to_ellipse, _min_merge_overlap *)

\* overlap_metric dispatching on "and" instead of "or".
OverlapDispatchAnd(ellip1, ellip2) ==
    IF ellip1.major # ellip1.minor /\ ellip2.major # ellip2.minor
      THEN [kernel |-> "_pixel_overlap", value |-> PixelOverlap(ellip1, ellip2)]
      ELSE LET blob_overlap == BlobOverlap(ellip1, ellip2)
           IN [kernel |-> "_blob_overlap",
               value |-> IF blob_overlap = Epsilon THEN 0 ELSE blob_overlap]

\* overlap_metric(ellip1, ellip2): the kernel it calls and the value returned.
OverlapDispatch(ellip1, ellip2) ==
    IF ellip1.major # ellip1.minor \/ ellip2.major # ellip2.minor
      THEN [kernel |-> "_pixel_overlap", value |-> PixelOverlap(ellip1, ellip2)]
      ELSE LET blob_overlap == BlobOverlap(ellip1, ellip2)
           IN [kernel |-> "_blob_overlap",
               value |-> IF blob_overlap = Epsilon THEN 0 ELSE blob_overlap]

OverlapMetric(ellip1, ellip2) == OverlapDispatch(ellip1, ellip2).value

\* merge_to_ellipse adding the whole distance to the semi-major axis.
MergeToEllipseFullDistance(blob1, blob2) ==
    LET d == Hypot(blob1.y - blob2.y, blob1.x - blob2.x)
        pa == ArcTanRatio(blob1.y - blob2.y, blob1.x - blob2.x)
    IN Det((blob1.y + blob2.y) \div 2,
           (blob1.x + blob2.x) \div 2,
           blob1.major + d,
           blob1.major,
           IF FloatLt(pa, 0) THEN pa + Pi ELSE pa)

\* merge_to_ellipse(blob1, blob2) on rows of a float64 array.
MergeToEllipse(blob1, blob2) ==
    LET d == Hypot(blob1.y - blob2.y, blob1.x - blob2.x)
        pa == ArcTanRatio(blob1.y - blob2.y, blob1.x - blob2.x)
    IN Det((blob1.y + blob2.y) \div 2,
           (blob1.x + blob2.x) \div 2,
           blob1.major + d \div 2,
           blob1.major,
           IF FloatLt(pa, 0) THEN pa + Pi ELSE pa)

\* _min_merge_overlap(min_dist), evaluated in float64 and rounded to 1/OvScale.
MinMergeOverlap(min_dist) ==
    CASE min_dist = 500 -> 530937
      [] min_dist = 1000 -> 391002
      [] min_dist = 1500 -> 249565
      [] min_dist = 2000 -> 0

-----------------------------------------------------------------------------
(* The pairwise overlap matrix *)

RECURSIVE RowMajor(_, _, _)
\* The index pairs (i, j), i < j, of an n-row array in the order np.where
\* lists them.  Positions are 1-based here, 0-based in the code.
RowMajor(i, j, n) ==
    IF i >= n THEN <<>>
    ELSE IF j > n THEN RowMajor(i + 1, i + 2, n)
    ELSE <<<<i, j>>>> \o RowMajor(i, j + 1, n)

\* dist_uppertri(pdist(rows, metric=overlap_metric), n): the matrix entries
\* above the diagonal, one per pair (i, j) with i < j.
DistUppertri(rows) ==
    [p \in {q \in (1..Len(rows)) \X (1..Len(rows)) : q[1] < q[2]} |->
        OverlapMetric(rows[p[1]], rows[p[2]])]

\* The calls of the metric pdist makes on an n-row array: one per pair.
MetricCalls(n) == [k \in 1..((n * (n - 1)) \div 2) |-> "overlap_metric"]

\* np.where(mask) on the boolean matrix: the pairs whose entry is true.
Where(mask, n) ==
    SelectSeq(RowMajor(1, 2, n), LAMBDA p : mask[p])

-----------------------------------------------------------------------------
(* Inputs *)

\* The longest array handed to _merge_blobs.
MaxBlobs == 5

\* The longest array of mixed shapes handed to _merge_blobs.
MaxMixed == 2

\* The longest array handed to _prune_blobs.
MaxPruneBlobs == 3

\* The longest array with shell fractions handed to _prune_blobs.
MaxShellBlobs == 2

\* The pixel grid of the kernel calls: rows 0..KernelMaxY, columns 0..KernelMaxX.
KernelMaxY == 1

KernelMaxX == 4

\* The pixel rows and columns of the detections in the arrays.
Ys == {0, 1}

Xs == {0, 1, 2, 3}

SeqsUpTo(S, n) == UNION {[1..k -> S] : k \in 1..n}

\* (semi-major, semi-minor) of the shapes: disks of radius 1.5 and 2.5 pixel
\* and one ellipse.
Disk15 == <<1500, 1500>>

Disk25 == <<2500, 2500>>

Ellipse2515 == <<2500, 1500>>

Shaped(y, x, shape) == Det(y * Scale, x * Scale, shape[1], shape[2], 0)

\* Equal disks on the grid: what the scale-space step yields at one scale.
CirclePool == {Shaped(y, x, Disk15) : y \in Ys, x \in Xs}

\* Disks of two radii and ellipses along one image row.
MixedPool == {Shaped(0, x, s) : x \in Xs, s \in {Disk15, Disk25, Ellipse2515}}

\* Rows with a shell fraction (0.3 or 0.9) and a channel.
ShellPool == {DetShell(b, sf) : b \in MixedPool, sf \in {300, 900}}

\* Pairs of detections for the kernels, zero and whole-pixel radii included.
KernelPool ==
    {Shaped(y, x, s) : y \in 0..KernelMaxY, x \in 0..KernelMaxX,
                       s \in {<<0, 0>>, <<1000, 1000>>, Disk15, Disk25,
                              Ellipse2515}}

\* Python's None and a value that is not None.
None == [some |-> FALSE, val |-> <<>>]

Some(v) == [some |-> TRUE, val |-> v]

\* The default scale_choice='linear' of blob_log.
DefaultChoice == [text |-> "linear", literal |-> TRUE]

\* The state before a call on array arr with the given parameters.
Fresh(arr, thr, shell, mdist) ==
    /\ pc = "idle"
    /\ fn = "none"
    /\ input = arr
    /\ blobs_array = arr
    /\ overlap = thr
    /\ use_shell_fraction = shell
    /\ min_distance_merge = mdist
    /\ dist_arr = [p \in {} |-> 0]
    /\ overlaps = <<>>
    /\ merged_blobs = <<>>
    /\ merge_log = <<>>
    /\ remove_blobs = <<>>
    /\ ret = <<>>
    /\ val = 0
    /\ kernel = "none"
    /\ err = "none"
    /\ calls = <<>>
    /\ stage = "none"
    /\ scale_choice = DefaultChoice
    /\ sigma_list = None
    /\ weighting = None
    /\ local_maxima = <<>>
    /\ image_cube = 0
    /\ result = <<>>
    /\ first_pass = <<>>

-----------------------------------------------------------------------------
(* The kernels, called on a pair *)

InitKernel ==
    /\ ndim = 2
    /\ \E b1 \in KernelPool, b2 \in KernelPool :
          Fresh(<<b1, b2>>, 500000, FALSE, 1000)

CallBlobOverlap ==
    /\ pc = "idle"
    /\ fn' = "_blob_overlap"
    /\ val' = BlobOverlap(blobs_array[1], blobs_array[2])
    /\ pc' = "done"
    /\ UNCHANGED <<input, blobs_array, overlap, use_shell_fraction,
                   min_distance_merge, dist_arr, overlaps, merged_blobs,
                   merge_log, remove_blobs, ret, kernel, err>>
    /\ calls' = <<BlobOverlapBranch(blobs_array[1], blobs_array[2])>>
    /\ UNCHANGED outer

CallOverlapMetric ==
    /\ pc = "idle"
    /\ fn' = "overlap_metric"
    /\ LET r == OverlapDispatch(blobs_array[1], blobs_array[2])
       IN /\ val' = r.value
          /\ kernel' = r.kernel
    /\ pc' = "done"
    /\ UNCHANGED <<input, blobs_array, overlap, use_shell_fraction,
                   min_distance_merge, dist_arr, overlaps, merged_blobs,
                   merge_log, remove_blobs, ret, err>>
    /\ UNCHANGED <<outer, calls>>

CallMergeToEllipse ==
    /\ pc = "idle"
    /\ fn' = "merge_to_ellipse"
    /\ ret' = <<MergeToEllipse(blobs_array[1], blobs_array[2])>>
    /\ pc' = "done"
    /\ UNCHANGED <<input, blobs_array, overlap, use_shell_fraction,
                   min_distance_merge, dist_arr, overlaps, merged_blobs,
                   merge_log, remove_blobs, val, kernel, err>>
    /\ UNCHANGED <<outer, calls>>

NextKernel == CallBlobOverlap \/ CallOverlapMetric \/ CallMergeToEllipse

SpecKernel == InitKernel /\ [][NextKernel]_vars

-----------------------------------------------------------------------------
(* _pixel_overlap, called on a pair of ellipses *)

\* The pixel grid of the _pixel_overlap calls: rows 0..PixelMaxY, columns
\* 0..PixelMaxX.
PixelMaxY == 3

PixelMaxX == 5

Ellipse1505 == <<1500, 500>>

\* Axis-aligned ellipses of two sizes on the grid.
PixelPool ==
    {Shaped(y, x, s) : y \in 0..PixelMaxY, x \in 0..PixelMaxX,
                       s \in {Ellipse2515, Ellipse1505}}

InitPixel ==
    /\ ndim = 2
    /\ \E b1 \in PixelPool, b2 \in PixelPool :
          Fresh(<<b1, b2>>, 500000, FALSE, 1000)

\* _pixel_overlap(blob1, blob2): the value, and whether line 436 returned
\* or the raster of lines 444-448 was built.
CallPixelOverlap ==
    /\ pc = "idle"
    /\ fn' = "_pixel_overlap"
    /\ LET bounds == PixelBounds(blobs_array[1], blobs_array[2])
       IN calls' = IF PixelEarlyReturn(bounds[1], bounds[2])
                     THEN <<"return 0.0">>
                     ELSE <<"np.meshgrid">>
    /\ val' = PixelOverlap(blobs_array[1], blobs_array[2])
    /\ pc' = "done"
    /\ UNCHANGED <<input, blobs_array, overlap, use_shell_fraction,
                   min_distance_merge, dist_arr, overlaps, merged_blobs,
                   merge_log, remove_blobs, ret, kernel, err>>
    /\ UNCHANGED outer

NextPixel == CallPixelOverlap

SpecPixel == InitPixel /\ [][NextPixel]_vars

-----------------------------------------------------------------------------
(* _merge_blobs *)

InitMerge ==
    /\ ndim = 2
    /\ \E arr \in SeqsUpTo(CirclePool, MaxBlobs)
                  \cup SeqsUpTo(MixedPool, MaxMixed) \cup {<<>>} :
          Fresh(arr, 500000, FALSE, 1000)

\* ~is_ellipse on a Python bool: the integer -2 for True, -1 for False.
Invert(is_ellipse) == IF is_ellipse THEN -2 ELSE -1

\* np.logical_and(a, n) of a bool and an integer: n counts as true unless 0.
LogicalAnd(a, n) == a /\ n # 0

\* Lines 205-210: whether the pair is merged into an ellipse.
MergeCond(blob1, blob2) ==
    LET is_ellipse == blob1.major # blob1.minor \/ blob2.major # blob2.minor
    IN LogicalAnd(blob1.major = blob2.major, Invert(is_ellipse))

\* Lines 214-217: the row with its radii set to -1.
Consumed(blob) == [blob EXCEPT !.major = Sentinel, !.minor = Sentinel]

\* Lines 187-198: the matrix and the pairs in the merge band.
MergeBegin ==
    /\ pc = "idle"
    /\ stage \in {"none", "merge"}
    /\ fn' = "_merge_blobs"
    /\ LET min_merge_overlap == MinMergeOverlap(min_distance_merge)
           arr == DistUppertri(blobs_array)
       IN /\ dist_arr' = arr
          /\ overlaps' = Where([p \in DOMAIN arr |->
                                   arr[p] > min_merge_overlap
                                   /\ arr[p] <= MaxMergeOverlap],
                               Len(blobs_array))
    /\ merged_blobs' = <<>>
    /\ pc' = "merge"
    /\ UNCHANGED <<input, blobs_array, overlap, use_shell_fraction,
                   min_distance_merge, merge_log, remove_blobs, ret, val,
                   kernel, err>>
    /\ calls' = calls \o <<"_merge_blobs">> \o MetricCalls(Len(blobs_array))
    /\ UNCHANGED outer

\* Lines 200-217: one iteration of the loop over the pairs.
MergePair ==
    /\ pc = "merge"
    /\ overlaps # <<>>
    /\ LET posn1 == Head(overlaps)[1]
           posn2 == Head(overlaps)[2]
           blob1 == blobs_array[posn1]
           blob2 == blobs_array[posn2]
       IN IF MergeCond(blob1, blob2)
            THEN /\ merged_blobs' =
                        Append(merged_blobs, MergeToEllipse(blob1, blob2))
                 /\ blobs_array' =
                        [blobs_array EXCEPT ![posn1] = Consumed(blob1),
                                            ![posn2] = Consumed(blob2)]
                 /\ merge_log' = Append(merge_log, <<posn1, posn2>>)
            ELSE UNCHANGED <<merged_blobs, blobs_array, merge_log>>
    /\ overlaps' = Tail(overlaps)
    /\ UNCHANGED <<pc, fn, input, overlap, use_shell_fraction,
                   min_distance_merge, dist_arr, remove_blobs, ret, val,
                   kernel, err>>
    /\ UNCHANGED <<outer, calls>>

\* Lines 219-223: the compaction.  np.array of an empty list has shape (0,),
\* which np.vstack cannot stack on the (k, 5) merged_blobs: ValueError.
MergeCompact ==
    /\ pc = "merge"
    /\ overlaps = <<>>
    /\ LET kept == SelectSeq(blobs_array, LAMBDA b : b.major > 0)
       IN IF kept = <<>>
            THEN /\ err' = "ValueError"
                 /\ pc' = "raised"
                 /\ ret' = ret
            ELSE /\ ret' = kept \o merged_blobs
                 /\ pc' = "done"
                 /\ err' = err
    /\ UNCHANGED <<fn, input, blobs_array, overlap, use_shell_fraction,
                   min_distance_merge, dist_arr, overlaps, merged_blobs,
                   merge_log, remove_blobs, val, kernel>>
    /\ UNCHANGED <<outer, calls>>

NextMerge == MergeBegin \/ MergePair \/ MergeCompact

SpecMerge == InitMerge /\ [][NextMerge]_vars

-----------------------------------------------------------------------------
(* _prune_blobs *)

\* The thresholds of the calls: 0.5 (the default of blob_log), 0.99 (the
\* value multiscale_bubblefind passes to blob_log) and 1.0.
Thresholds == {500000, 990000, OvScale}

\* An array of no rows has the shape (0, 5) when it is the local_maxima of
\* blob_log, and the shape (0,) when it is np.array(all_props) of an empty
\* all_props (bubble_segment2D.py line 301).
InitPrune ==
    \/ /\ ndim = 2
       /\ \E arr \in SeqsUpTo(MixedPool, MaxPruneBlobs) \cup {<<>>},
             thr \in Thresholds :
             Fresh(arr, thr, FALSE, 1000)
    \/ /\ ndim = 2
       /\ \E arr \in SeqsUpTo(ShellPool, MaxShellBlobs) :
             Fresh(arr, 900000, TRUE, 1000)
    \/ /\ ndim = 1
       /\ Fresh(<<>>, 900000, TRUE, 1000)

\* cond with the comparison turned round.
PruneCondFlipped(blob1, blob2) == blob1.major < blob2.major

\* cond always true: the second member of the pair is removed.
PruneCondAlways(blob1, blob2) == TRUE

\* cond true on equal axes as well: a tie removes the second member.
PruneCondNotLess(blob1, blob2) == blob1.major >= blob2.major

\* cond never true: the first member of the pair is removed.
PruneCondNever(blob1, blob2) == FALSE

\* Line 154: cond = blob1[2] > blob2[2].
PruneCond(blob1, blob2) == blob1.major > blob2.major

\* Lines 129-132 and 135: the columns pdist sees.
Sliced(rows) ==
    IF use_shell_fraction THEN [i \in 1..Len(rows) |-> Geometry(rows[i])]
    ELSE rows

\* np.delete removing the lowest of the indices only.
DeleteLowest(rows, idx) ==
    LET low == IF idx = {} THEN 0
               ELSE CHOOSE i \in idx : \A j \in idx : i <= j
    IN [k \in 1..(Len(rows) - (IF idx = {} THEN 0 ELSE 1)) |->
           IF k < low \/ idx = {} THEN rows[k] ELSE rows[k + 1]]

\* np.delete(blobs_array, remove_blobs, axis=0).
Delete(rows, idx) ==
    LET keep(i) == i \notin idx
        RECURSIVE Walk(_)
        Walk(i) == IF i > Len(rows) THEN <<>>
                   ELSE (IF keep(i) THEN <<rows[i]>> ELSE <<>>) \o Walk(i + 1)
    IN Walk(1)

\* overlaps >= overlap taken strictly, as dist_arr > overlap.
PruneMaskStrict(arr, thr) == [p \in DOMAIN arr |-> arr[p] > thr]

\* Line 138: dist_arr >= overlap.
PruneMask(arr, thr) == [p \in DOMAIN arr |-> arr[p] >= thr]

\* Lines 127-138: the matrix and the pairs at or above the threshold.  A
\* one-dimensional array cannot be indexed [:, slicer]: IndexError.
PruneBegin ==
    /\ pc = "idle"
    /\ stage \in {"none", "prune"}
    /\ fn' = "_prune_blobs"
    /\ remove_blobs' = <<>>
    /\ IF ndim = 1
         THEN /\ err' = "IndexError"
              /\ pc' = "raised"
              /\ calls' = calls \o <<"_prune_blobs">>
              /\ UNCHANGED <<dist_arr, overlaps>>
         ELSE /\ LET arr == DistUppertri(Sliced(blobs_array))
                 IN /\ dist_arr' = arr
                    /\ overlaps' = Where(PruneMask(arr, overlap),
                                         Len(blobs_array))
              /\ calls' = calls \o <<"_prune_blobs">>
                               \o MetricCalls(Len(blobs_array))
              /\ pc' = "prune"
              /\ err' = err
    /\ UNCHANGED <<input, blobs_array, overlap, use_shell_fraction,
                   min_distance_merge, merged_blobs, merge_log, ret, val,
                   kernel>>
    /\ UNCHANGED outer

\* Lines 140-158: one iteration of the loop over the pairs.  With
\* use_shell_fraction the branch reads the local cond, which it never
\* assigned: UnboundLocalError.
PrunePair ==
    /\ pc = "prune"
    /\ overlaps # <<>>
    /\ LET posn1 == Head(overlaps)[1]
           posn2 == Head(overlaps)[2]
           blob1 == blobs_array[posn1]
           blob2 == blobs_array[posn2]
       IN IF use_shell_fraction
            THEN /\ err' = "UnboundLocalError"
                 /\ pc' = "raised"
                 /\ UNCHANGED <<remove_blobs, overlaps>>
            ELSE /\ remove_blobs' =
                        Append(remove_blobs,
                               IF PruneCond(blob1, blob2) THEN posn2 ELSE posn1)
                 /\ overlaps' = Tail(overlaps)
                 /\ UNCHANGED <<pc, err>>
    /\ UNCHANGED <<fn, input, blobs_array, overlap, use_shell_fraction,
                   min_distance_merge, dist_arr, merged_blobs, merge_log,
                   ret, val, kernel>>
    /\ UNCHANGED <<outer, calls>>

\* Lines 160-165: drop the duplicates, delete the marked rows, return.
PruneReturn ==
    /\ pc = "prune"
    /\ overlaps = <<>>
    /\ ret' = Delete(blobs_array,
                     {remove_blobs[k] : k \in 1..Len(remove_blobs)})
    /\ pc' = "done"
    /\ UNCHANGED <<fn, input, blobs_array, overlap, use_shell_fraction,
                   min_distance_merge, dist_arr, overlaps, merged_blobs,
                   merge_log, remove_blobs, val, kernel, err>>
    /\ UNCHANGED <<outer, calls>>

NextPrune == PruneBegin \/ PrunePair \/ PruneReturn

SpecPrune == InitPrune /\ [][NextPrune]_vars

-----------------------------------------------------------------------------
(* Two passes of _merge_blobs *)

\* The longest array handed to the first of two passes.
MaxTwice == 5

\* Equal disks along one image row, at columns 0, 2, 4, 6 and 9.
RowPool == {Shaped(0, x, Disk15) : x \in {0, 2, 4, 6, 9}}

\* min_distance_merge = 2.0: every pair of overlap above 0 is in the band.
InitTwice ==
    /\ ndim = 2
    /\ \E arr \in SeqsUpTo(RowPool, MaxTwice) :
          Fresh(arr, 500000, FALSE, 2000)

\* _merge_blobs(_merge_blobs(L, m), m): the second call, on the array the
\* first one returned.
MergeAgain ==
    /\ pc = "done"
    /\ fn = "_merge_blobs"
    /\ first_pass = <<>>
    /\ first_pass' = ret
    /\ blobs_array' = ret
    /\ ret' = <<>>
    /\ merge_log' = <<>>
    /\ pc' = "idle"
    /\ UNCHANGED <<fn, input, overlap, use_shell_fraction, min_distance_merge,
                   dist_arr, overlaps, merged_blobs, remove_blobs, val,
                   kernel, err, ndim, calls, stage, scale_choice, sigma_list,
                   weighting, local_maxima, image_cube, result>>

NextTwice == MergeBegin \/ MergePair \/ MergeCompact \/ MergeAgain

SpecTwice == InitTwice /\ [][NextTwice]_vars

-----------------------------------------------------------------------------
(* blob_log *)

\* min_sigma, max_sigma and num_sigma of the calls, as blob radii
\* sigma * sqrt(2) (line 363): 1.5 and 2.5 pixel, two scales.
MinSigma == 1500

MaxSigma == 2500

NumSigma == 2

\* sigma_ratio, the default 2.
SigmaRatio == 2

\* The most local maxima peak_local_max finds over all scales.
MaxPeaks == 3

\* np.linspace(lo, hi, num).
Linspace(lo, hi, num) ==
    IF num = 1 THEN <<lo>>
    ELSE [i \in 1..num |-> lo + ((hi - lo) * (i - 1)) \div (num - 1)]

\* np.logspace(log10(lo), log10(hi), num) for num <= 2: the end points.
Logspace(lo, hi, num) == IF num = 1 THEN <<lo>> ELSE <<lo, hi>>

RECURSIVE RatioCount(_, _)
\* int(log(hi / lo, sigma_ratio)) + 1, for hi / lo not a power of the ratio.
RatioCount(lo, hi) ==
    IF SigmaRatio * lo > hi THEN 1 ELSE 1 + RatioCount(SigmaRatio * lo, hi)

RECURSIVE Power(_, _)
Power(b, e) == IF e = 0 THEN 1 ELSE b * Power(b, e - 1)

\* [min_sigma * sigma_ratio ** i for i in range(k)].
RatioScales(lo, hi) ==
    [i \in 1..RatioCount(lo, hi) |-> lo * Power(SigmaRatio, i - 1)]

\* scale_choice is 'log': identity with the literal of the module, which an
\* equal string built at run time need not have.
Is(choice, lit) == choice.literal /\ choice.text = lit

\* The values of scale_choice: the three modes and one that is none of them.
Choices ==
    {[text |-> t, literal |-> l] :
        t \in {"linear", "log", "ratio", "cubic"}, l \in BOOLEAN}

\* The explicit scale lists of the calls.
SigmaLists == {<<MinSigma>>, <<MinSigma, MaxSigma>>}

\* The weightings of the calls: one to three weights.
Weightings == {<<1>>, <<1, 1>>, <<1, 1, 1>>}

\* The image columns of the maxima.
PeakXs == {0, 1, 2}

\* min_distance=1.5*scale of peak_local_max (line 350): two maxima of one
\* scale, dx pixels apart, are further apart than 1.5 * sigma, where the
\* radius is sigma * sqrt(2): 8 * dx**2 > 9 * radius**2.
Separated(dx, radius) == 8 * dx * dx * Scale * Scale > 9 * radius * radius

\* What peak_local_max can find on the scales: up to MaxPeaks maxima (x, i)
\* on image row 0, separated on each scale, stacked scale by scale
\* (lines 347-358).
Peaks(scales) ==
    {<<>>} \cup
    {pk \in UNION {[1..k -> PeakXs \X (1..Len(scales))] : k \in 1..MaxPeaks} :
        \A a \in 1..Len(pk), b \in 1..Len(pk) :
            a < b => /\ pk[a][2] <= pk[b][2]
                     /\ pk[a][2] = pk[b][2] =>
                            Separated(pk[a][1] - pk[b][1], scales[pk[a][2]])}

InitBlobLog ==
    /\ ndim = 2
    /\ pc = "idle"
    /\ fn = "none"
    /\ input = <<>>
    /\ blobs_array = <<>>
    /\ overlap \in {500000, 990000}
    /\ use_shell_fraction = FALSE
    /\ min_distance_merge \in {1000, 2000}
    /\ dist_arr = [p \in {} |-> 0]
    /\ overlaps = <<>>
    /\ merged_blobs = <<>>
    /\ merge_log = <<>>
    /\ remove_blobs = <<>>
    /\ ret = <<>>
    /\ val = 0
    /\ kernel = "none"
    /\ err = "none"
    /\ calls = <<>>
    /\ stage = "scales"
    /\ scale_choice \in Choices
    /\ sigma_list \in {None} \cup {Some(l) : l \in SigmaLists}
    /\ weighting \in {None} \cup {Some(w) : w \in Weightings}
    /\ local_maxima = <<>>
    /\ image_cube = 0
    /\ result = <<>>
    /\ first_pass = <<>>

\* What the steps of blob_log before line 375 leave alone.
callee == <<pc, fn, input, blobs_array, overlap, use_shell_fraction,
            min_distance_merge, dist_arr, overlaps, merged_blobs, merge_log,
            remove_blobs, ret, val, kernel, ndim, first_pass>>

\* Lines 318-331: the scale list, or the ValueError of line 330.
Scales(list, choice) ==
    IF list.some THEN [raised |-> FALSE, list |-> list]
    ELSE IF Is(choice, "log")
      THEN [raised |-> FALSE,
            list |-> Some(Logspace(MinSigma, MaxSigma, NumSigma))]
    ELSE IF Is(choice, "linear")
      THEN [raised |-> FALSE,
            list |-> Some(Linspace(MinSigma, MaxSigma, NumSigma))]
    ELSE IF Is(choice, "ratio")
      THEN [raised |-> FALSE, list |-> Some(RatioScales(MinSigma, MaxSigma))]
    ELSE [raised |-> TRUE, list |-> list]

\* Lines 318-331.
BlobLogScales ==
    /\ stage = "scales"
    /\ LET r == Scales(sigma_list, scale_choice)
       IN IF r.raised
            THEN /\ err' = "ValueError"
                 /\ stage' = "raised"
                 /\ UNCHANGED sigma_list
            ELSE /\ sigma_list' = r.list
                 /\ stage' = "weighting"
                 /\ UNCHANGED err
    /\ UNCHANGED <<callee, calls, scale_choice, weighting, local_maxima,
                   image_cube, result>>

\* Line 334 with the lengths never found different.
WeightingMismatchNever(w, list) == FALSE

\* Line 334: len(weighting) != len(sigma_list).
WeightingMismatch(w, list) == Len(w) # Len(list)

\* Lines 333-338.
BlobLogWeighting ==
    /\ stage = "weighting"
    /\ IF weighting.some
         THEN IF WeightingMismatch(weighting.val, sigma_list.val)
                THEN /\ err' = "IndexError"
                     /\ stage' = "raised"
                     /\ UNCHANGED weighting
                ELSE /\ stage' = "response"
                     /\ UNCHANGED <<err, weighting>>
         ELSE /\ weighting' = Some([i \in 1..Len(sigma_list.val) |-> 1])
              /\ stage' = "response"
              /\ UNCHANGED err
    /\ UNCHANGED <<callee, calls, scale_choice, sigma_list, local_maxima,
                   image_cube, result>>

\* Lines 343-345: one gaussian_laplace per pair of zip(sigma_list, weighting).
BlobLogResponse ==
    /\ stage = "response"
    /\ LET planes == Min(Len(sigma_list.val), Len(weighting.val))
       IN /\ image_cube' = planes
          /\ calls' = calls \o [k \in 1..planes |-> "gaussian_laplace"]
    /\ stage' = "maxima"
    /\ UNCHANGED <<callee, err, scale_choice, sigma_list, weighting,
                   local_maxima, result>>

\* Lines 347-369: the maxima of every scale, as rows
\* (y, x, sigma * sqrt(2), sigma * sqrt(2), 0).
BlobLogMaxima ==
    /\ stage = "maxima"
    /\ \E pk \in Peaks(SubSeq(sigma_list.val, 1, image_cube)) :
          local_maxima' =
              [k \in 1..Len(pk) |->
                  Det(0, pk[k][1] * Scale, sigma_list.val[pk[k][2]],
                      sigma_list.val[pk[k][2]], 0)]
    /\ calls' = calls \o [k \in 1..Len(sigma_list.val) |-> "peak_local_max"]
    /\ stage' = "size"
    /\ UNCHANGED <<callee, err, scale_choice, sigma_list, weighting,
                   image_cube, result>>

\* Lines 371-372: no maxima, return them and the response stack.
BlobLogEmpty ==
    /\ stage = "size"
    /\ local_maxima = <<>>
    /\ result' = local_maxima
    /\ stage' = "returned"
    /\ UNCHANGED <<callee, err, calls, scale_choice, sigma_list, weighting,
                   local_maxima, image_cube>>

\* Line 375: the call of _merge_blobs(local_maxima, merge_overlap_dist).
BlobLogMerge ==
    /\ stage = "size"
    /\ local_maxima # <<>>
    /\ input' = local_maxima
    /\ blobs_array' = local_maxima
    /\ pc' = "idle"
    /\ stage' = "merge"
    /\ UNCHANGED <<fn, overlap, use_shell_fraction, min_distance_merge,
                   dist_arr, overlaps, merged_blobs, merge_log, remove_blobs,
                   ret, val, kernel, ndim, first_pass, err, calls,
                   scale_choice, sigma_list, weighting, local_maxima,
                   image_cube, result>>

\* Lines 375-379: _merge_blobs returned, the call of
\* _prune_blobs(local_maxima, overlap).
BlobLogPrune ==
    /\ stage = "merge"
    /\ pc = "done"
    /\ local_maxima' = ret
    /\ input' = ret
    /\ blobs_array' = ret
    /\ ret' = <<>>
    /\ pc' = "idle"
    /\ stage' = "prune"
    /\ UNCHANGED <<fn, overlap, use_shell_fraction, min_distance_merge,
                   dist_arr, overlaps, merged_blobs, merge_log, remove_blobs,
                   val, kernel, ndim, first_pass, err, calls, scale_choice,
                   sigma_list, weighting, image_cube, result>>

\* Lines 379-380: _prune_blobs returned, return its array and the stack.
BlobLogReturn ==
    /\ stage = "prune"
    /\ pc = "done"
    /\ result' = ret
    /\ stage' = "returned"
    /\ UNCHANGED <<callee, err, calls, scale_choice, sigma_list, weighting,
                   local_maxima, image_cube>>

\* An exception of _merge_blobs or _prune_blobs leaves blob_log.
BlobLogRaise ==
    /\ stage \in {"merge", "prune"}
    /\ pc = "raised"
    /\ stage' = "raised"
    /\ UNCHANGED <<callee, err, calls, scale_choice, sigma_list, weighting,
                   local_maxima, image_cube, result>>

NextBlobLog ==
    \/ BlobLogScales
    \/ BlobLogWeighting
    \/ BlobLogResponse
    \/ BlobLogMaxima
    \/ BlobLogEmpty
    \/ BlobLogMerge
    \/ BlobLogPrune
    \/ BlobLogReturn
    \/ BlobLogRaise
    \/ MergeBegin
    \/ MergePair
    \/ MergeCompact
    \/ PruneBegin
    \/ PrunePair
    \/ PruneReturn

SpecBlobLog == InitBlobLog /\ [][NextBlobLog]_vars

-----------------------------------------------------------------------------
(* Properties *)

Circular(b) == b.major = b.minor

\* The squared distance of the centres, exact.
Dist2(b1, b2) == (b1.y - b2.y) * (b1.y - b2.y) + (b1.x - b2.x) * (b1.x - b2.x)

\* The pairs (i, j), i < j, of the input whose overlap reaches the threshold.
OverPairs ==
    SelectSeq(RowMajor(1, 2, Len(input)),
              LAMBDA p : OverlapMetric(Geometry(input[p[1]]),
                                       Geometry(input[p[2]])) >= overlap)

\* The input without row i.
Without(i) == SubSeq(input, 1, i - 1) \o SubSeq(input, i + 1, Len(input))

PruneDone == fn = "_prune_blobs" /\ ~use_shell_fraction /\ pc = "done"

\* C1: _prune_blobs without use_shell_fraction marks, for every pair at or
\* above the threshold, exactly one member, the one with the smaller
\* semi-major axis when the axes differ; with exactly one such pair of
\* distinct radii the output is the input minus the smaller member.
C1_PruneRemovesSmaller ==
    PruneDone =>
        LET pairs == OverPairs
        IN /\ Len(remove_blobs) = Len(pairs)
           /\ \A k \in 1..Len(pairs) :
                 LET i == pairs[k][1]
                     j == pairs[k][2]
                 IN /\ remove_blobs[k] \in {i, j}
                    /\ input[i].major < input[j].major => remove_blobs[k] = i
                    /\ input[j].major < input[i].major => remove_blobs[k] = j
           /\ (Len(pairs) = 1
                 /\ input[pairs[1][1]].major # input[pairs[1][2]].major) =>
                 LET i == pairs[1][1]
                     j == pairs[1][2]
                     small == IF input[i].major < input[j].major THEN i ELSE j
                 IN /\ ret = Without(small)
                    /\ Len(ret) = Len(input) - 1

C1_Witness ==
    /\ PruneDone
    /\ Len(input) = 3
    /\ Len(OverPairs) = 1
    /\ input[OverPairs[1][1]].major > input[OverPairs[1][2]].major
    /\ ret = Without(OverPairs[1][2])

\* C2: _prune_blobs with use_shell_fraction=True returns normally, and of
\* every pair at or above the threshold the member with the lower shell
\* fraction is removed, whichever has the larger semi-major axis.
C2_ShellFractionPrune ==
    (fn = "_prune_blobs" /\ use_shell_fraction /\ pc \in {"done", "raised"}) =>
        /\ err = "none"
        /\ \A k \in 1..Len(OverPairs) :
              LET i == OverPairs[k][1]
                  j == OverPairs[k][2]
              IN /\ input[i].sf < input[j].sf =>
                      \E n \in 1..Len(remove_blobs) : remove_blobs[n] = i
                 /\ input[j].sf < input[i].sf =>
                      \E n \in 1..Len(remove_blobs) : remove_blobs[n] = j

\* C3: within one pass of _merge_blobs no detection is an input of two merges.
C3_MergedOncePerPass ==
    \A k1 \in 1..Len(merge_log), k2 \in 1..Len(merge_log) :
        k1 < k2 =>
            {merge_log[k1][1], merge_log[k1][2]}
                \cap {merge_log[k2][1], merge_log[k2][2]} = {}

\* C4: _merge_blobs merges a pair only when both detections are circular.
C4_MergeOnlyCircles ==
    \A k \in 1..Len(merge_log) :
        /\ Circular(input[merge_log[k][1]])
        /\ Circular(input[merge_log[k][2]])

\* C5: every detection _merge_blobs returns, for an input of circular
\* detections with positive radii, has semi_major >= semi_minor >= 0.
C5_ReturnedAxesOrdered ==
    (/\ fn = "_merge_blobs"
     /\ pc = "done"
     /\ \A i \in 1..Len(input) : Circular(input[i]) /\ input[i].major > 0) =>
        \A n \in 1..Len(ret) :
            ret[n].major >= ret[n].minor /\ ret[n].minor >= 0

\* The input rows no merge of the pass consumed, in their order.
Unconsumed ==
    LET used == UNION {{merge_log[k][1], merge_log[k][2]} :
                          k \in 1..Len(merge_log)}
        RECURSIVE Walk(_)
        Walk(i) == IF i > Len(input) THEN <<>>
                   ELSE (IF i \in used THEN <<>> ELSE <<input[i]>>)
                            \o Walk(i + 1)
    IN Walk(1)

\* C6: _merge_blobs returns without error the unconsumed inputs in their
\* order followed by the synthesized ellipses in the order of creation,
\* also when every input is consumed.
C6_MergeCompaction ==
    (fn = "_merge_blobs" /\ pc \in {"done", "raised"}) =>
        /\ err = "none"
        /\ ret = Unconsumed \o merged_blobs
        /\ Len(ret) = Len(Unconsumed) + Len(merge_log)

\* C7: merge_to_ellipse on two circles of equal radius r at distance d
\* returns the midpoint, semi_major r + d/2 (to one fixed-point unit) and
\* semi_minor r, whichever the order of the arguments.
C7_MergeToEllipseGeometry ==
    (/\ fn = "merge_to_ellipse"
     /\ pc = "done"
     /\ Circular(input[1])
     /\ Circular(input[2])
     /\ input[1].major = input[2].major) =>
        LET r == input[1].major
            twice == 2 * (ret[1].major - r)
        IN /\ 2 * ret[1].y = input[1].y + input[2].y
           /\ 2 * ret[1].x = input[1].x + input[2].x
           /\ ret[1].minor = r
           /\ twice >= 0
           /\ twice * twice <= Dist2(input[1], input[2])
           /\ (twice + 2) * (twice + 2) > Dist2(input[1], input[2])

C7_Witness ==
    /\ fn = "merge_to_ellipse"
    /\ pc = "done"
    /\ input[1].major = 1500
    /\ input[2] = Shaped(1, 2, Disk15)
    /\ input[1].y = 0
    /\ input[1].x = 1000
    /\ ret[1].major > 1500
    /\ ret[1].y = 500

BlobOverlapDone ==
    fn = "_blob_overlap" /\ pc = "done" /\ Circular(input[1]) /\ Circular(input[2])

Disjoint == Dist2(input[1], input[2])
                > (input[1].major + input[2].major) * (input[1].major + input[2].major)

Touching == Dist2(input[1], input[2])
                = (input[1].major + input[2].major) * (input[1].major + input[2].major)

Nested == Dist2(input[1], input[2])
                <= (input[1].major - input[2].major) * (input[1].major - input[2].major)

\* C9 as stated: _blob_overlap returns 0 whenever d > r1 + r2 and 1 whenever
\* d <= |r1 - r2|, a zero-radius circle on the other's boundary included.
C9_NestedAlwaysOne ==
    BlobOverlapDone =>
        /\ Disjoint => val = 0
        /\ Nested => val = OvScale

\* C9 amended: _blob_overlap returns 0 whenever d > r1 + r2 and 1 whenever
\* d <= |r1 - r2| and d # r1 + r2; when both d <= |r1 - r2| and d = r1 + r2
\* hold (one radius is zero) it returns the touching value 1e-5.
C9_NestedOneUnlessTouching ==
    BlobOverlapDone =>
        /\ Disjoint => val = 0
        /\ (Nested /\ ~Touching) => val = OvScale
        /\ (Nested /\ Touching) => val = Epsilon

C9_Witness ==
    /\ BlobOverlapDone
    /\ Nested
    /\ ~Touching
    /\ input[1].major = 1500
    /\ input[2].major = 2500
    /\ Dist2(input[1], input[2]) = Scale * Scale
    /\ val = OvScale

\* C10: for two circular detections with d = r1 + r2 _blob_overlap returns
\* the positive epsilon and overlap_metric exactly 0; overlap_metric calls
\* the pixel kernel iff a detection has semi_major # semi_minor, and the
\* circle kernel otherwise.
C10_TouchingAndDispatch ==
    /\ (BlobOverlapDone /\ Touching) => (val = Epsilon /\ val > 0)
    /\ (fn = "overlap_metric" /\ pc = "done") =>
          /\ kernel = "_pixel_overlap"
                <=> (~Circular(input[1]) \/ ~Circular(input[2]))
          /\ kernel = "_blob_overlap"
                <=> (Circular(input[1]) /\ Circular(input[2]))
          /\ (Circular(input[1]) /\ Circular(input[2]) /\ Touching) => val = 0

C10_Witness ==
    /\ fn = "overlap_metric"
    /\ pc = "done"
    /\ kernel = "_blob_overlap"
    /\ input[1].major = 1500
    /\ input[2].major = 2500
    /\ Touching
    /\ val = 0

\* C8: every ellipse _merge_blobs synthesizes has a position angle that is
\* a number in [0, pi), also for x1 = x2 and for identical centres.
C8_PositionAngleDefined ==
    \A n \in 1..Len(merged_blobs) :
        /\ merged_blobs[n].pa # NaN
        /\ merged_blobs[n].pa >= 0
        /\ merged_blobs[n].pa < Pi

\* The bounding boxes of the two ellipses do not intersect: one lies wholly
\* above, below, left or right of the other.
BoxesDisjoint ==
    LET b == PixelBounds(input[1], input[2])
    IN \/ b[1][1][2] < b[2][1][1]
       \/ b[2][1][2] < b[1][1][1]
       \/ b[1][2][2] < b[2][2][1]
       \/ b[2][2][2] < b[1][2][1]

\* C11: whenever the bounding boxes of the two ellipses do not intersect,
\* _pixel_overlap returns 0 at line 436, without building the raster.
C11_DisjointBoxesReturnEarly ==
    (fn = "_pixel_overlap" /\ pc = "done" /\ BoxesDisjoint) =>
        /\ val = 0
        /\ calls = <<"return 0.0">>

\* C20: _blob_overlap on circles of non-negative radii returns a number;
\* it reaches the closed form only with d > 0, r1 > 0 and r2 > 0, where
\* every divisor is positive, and a pair with identical centres returns
\* at line 85 or line 89.
C20_NoDivisionByZero ==
    BlobOverlapDone =>
        /\ val # NaN
        /\ calls = <<"closed form">> =>
              /\ Dist2(input[1], input[2]) > 0
              /\ input[1].major > 0
              /\ input[2].major > 0
              /\ \A k \in 1..3 : Divisors(input[1], input[2])[k] > 0
        /\ Dist2(input[1], input[2]) = 0 =>
              calls \in {<<"return 1e-5">>, <<"return 1">>}

C20_Witness ==
    /\ BlobOverlapDone
    /\ Dist2(input[1], input[2]) = 0
    /\ input[1].major = 1500
    /\ input[2].major = 1500
    /\ calls = <<"return 1">>
    /\ val = OvScale

\* C12: a call of blob_log with a scale_choice that is none of 'linear',
\* 'log' and 'ratio' raises ValueError before the response stack is
\* computed, with or without an explicit sigma_list.
C12_UnknownScaleChoiceFailsFast ==
    scale_choice.text \notin {"linear", "log", "ratio"} =>
        /\ stage \in {"scales", "raised"}
        /\ stage = "raised" => err = "ValueError"
        /\ image_cube = 0

\* The weighting passed has another length than the scale list in use.
WeightingWrong ==
    /\ stage # "scales"
    /\ sigma_list.some
    /\ weighting.some
    /\ Len(weighting.val) # Len(sigma_list.val)

\* C13: with a weighting of another length than the scale list, explicit
\* or generated, blob_log raises at line 335: no response stack, no maxima,
\* no merge, no prune, nothing returned.
C13_WeightingLengthChecked ==
    WeightingWrong =>
        /\ stage \in {"weighting", "raised"}
        /\ stage = "raised" => err = "IndexError"
        /\ image_cube = 0
        /\ calls = <<>>
        /\ local_maxima = <<>>
        /\ result = <<>>

C13_Witness ==
    /\ WeightingWrong
    /\ stage = "raised"
    /\ err = "IndexError"
    /\ scale_choice.text = "ratio"
    /\ Len(sigma_list.val) = 1
    /\ Len(weighting.val) = 3

\* C14: _prune_blobs on an array of no detections, the one
\* multiscale_bubblefind passes included, returns an empty array without
\* raising and without a call of overlap_metric.
C14_EmptyListShortCircuits ==
    (fn = "_prune_blobs" /\ input = <<>> /\ pc \in {"done", "raised"}) =>
        /\ err = "none"
        /\ pc = "done"
        /\ ret = <<>>
        /\ calls = <<"_prune_blobs">>

\* The calls of _merge_blobs and _prune_blobs so far, in their order.
StageCalls ==
    SelectSeq(calls, LAMBDA c : c \in {"_merge_blobs", "_prune_blobs"})

\* C15: a blob_log that found a local maximum (and so reached line 375)
\* ends by returning, after exactly one _merge_blobs and then exactly one
\* _prune_blobs on the merge output, the array _prune_blobs returned.
C15_MergeThenPruneOnce ==
    (stage \in {"returned", "raised"} /\ StageCalls # <<>>) =>
        /\ stage = "returned"
        /\ StageCalls = <<"_merge_blobs", "_prune_blobs">>
        /\ input = local_maxima
        /\ result = ret

\* The indices _prune_blobs marked.
Marked == {remove_blobs[k] : k \in 1..Len(remove_blobs)}

\* The rows of the input that are not marked, in their order.
Survivors ==
    LET RECURSIVE Walk(_)
        Walk(i) == IF i > Len(input) THEN <<>>
                   ELSE (IF i \in Marked THEN <<>> ELSE <<input[i]>>)
                            \o Walk(i + 1)
    IN Walk(1)

PruneReturned == fn = "_prune_blobs" /\ pc = "done"

\* C16: _prune_blobs returns the input rows that are not marked, each marked
\* row removed once, in their order and unchanged, and leaves the array it
\* was passed unchanged.
C16_PruneFrame ==
    PruneReturned =>
        /\ ret = Survivors
        /\ Len(ret) = Len(input) - Cardinality(Marked)
        /\ blobs_array = input

C16_Witness ==
    /\ PruneReturned
    /\ Len(input) = 3
    /\ Len(remove_blobs) = 3
    /\ Cardinality(Marked) = 2
    /\ Len(ret) = 1
    /\ ret = Survivors

\* C17: a second pass of _merge_blobs that returns, returns the array the
\* first pass returned.
C17_MergeIdempotent ==
    (first_pass # <<>> /\ pc = "done") => ret = first_pass

\* The rows connected to row i by the pairs of edges.
ComponentIn(edges, i) ==
    LET Step(S) == S \cup {j \in 1..Len(input) :
                              \E a \in S : <<a, j>> \in edges
                                            \/ <<j, a>> \in edges}
        RECURSIVE Grow(_)
        Grow(S) == IF Step(S) = S THEN S ELSE Grow(Step(S))
    IN Grow({i})

\* The rows connected to row i by pairs at or above the threshold.
Component(i) == ComponentIn({OverPairs[k] : k \in 1..Len(OverPairs)}, i)

\* C18: of every connected component of the pairs at or above the threshold
\* _prune_blobs keeps a row of the largest semi-major axis of the
\* component; a non-empty array is never pruned to an empty one.
C18_ClusterRepresentative ==
    (PruneReturned /\ input # <<>>) =>
        LET pairs == OverPairs
            edges == {pairs[k] : k \in 1..Len(pairs)}
        IN /\ ret # <<>>
           /\ \A i \in 1..Len(input) :
                 LET comp == ComponentIn(edges, i)
                 IN \E j \in comp \ Marked :
                       \A k \in comp : input[k].major <= input[j].major

C18_Witness ==
    /\ PruneReturned
    /\ Len(input) = 3
    /\ Len(OverPairs) = 3
    /\ Component(1) = {1, 2, 3}
    /\ Len(ret) = 1
    /\ ret[1].major = 2500

\* C19: no two rows _prune_blobs returns have an overlap_metric at or above
\* the threshold.
C19_NoOverlapLeft ==
    (PruneReturned /\ overlap > 0 /\ overlap <= OvScale) =>
        \A a \in 1..Len(ret), b \in 1..Len(ret) :
            a < b => ~(OverlapMetric(Geometry(ret[a]), Geometry(ret[b]))
                          >= overlap)

C19_Witness ==
    /\ PruneReturned
    /\ overlap = OvScale
    /\ Len(input) = 3
    /\ Len(OverPairs) = 1
    /\ Len(ret) = 2

\* The pairs at or above the threshold, as a set.
OverEdges ==
    LET pairs == OverPairs
    IN {pairs[k] : k \in 1..Len(pairs)}

Dominators(edges, i) ==
    {j \in 1..Len(input) :
        /\ <<i, j>> \in edges \/ <<j, i>> \in edges
        /\ \/ input[j].major > input[i].major
           \/ input[j].major = input[i].major /\ j > i}

\* The rows reached from row i by going from a row to one of its
\* dominators, any number of times (at least once).
UpReach(edges, i) ==
    LET Step(S) == S \cup UNION {Dominators(edges, a) : a \in S}
        RECURSIVE Grow(_)
        Grow(S) == IF Step(S) = S THEN S ELSE Grow(Step(S))
    IN Grow(Dominators(edges, i))

\* C22 as stated: every row _prune_blobs removed has an overlap at or above
\* the threshold with a row of the returned array.
C22_RemovedOverlapsSurvivor ==
    PruneReturned =>
        LET edges == OverEdges
        IN \A i \in Marked :
              \E j \in (1..Len(input)) \ Marked :
                  <<i, j>> \in edges \/ <<j, i>> \in edges

\* C22, amended: every row _prune_blobs removed has an overlap at or above
\* the threshold with a row that is larger, or as large and listed later,
\* and going on from such a partner to one of its own ends at a row of the
\* returned array; the partner itself can be a removed row.
C22_RemovedChainsToSurvivor ==
    PruneReturned =>
        LET edges == OverEdges
        IN \A i \in Marked :
              /\ Dominators(edges, i) # {}
              /\ UpReach(edges, i) \ Marked # {}

C22_Witness ==
    /\ PruneReturned
    /\ Len(input) = 3
    /\ OverEdges = {<<1, 2>>, <<2, 3>>}
    /\ Marked = {1, 2}
    /\ Dominators(OverEdges, 1) = {2}
    /\ UpReach(OverEdges, 1) = {2, 3}
    /\ ret = <<input[3]>>
====
